---- MODULE Spec2Model ----
(***************************************************************************)
(* A model of the global-sentiment ETL: the main pipeline of src/main.py   *)
(* (acquisition of three sources, raw writes, sentiment enrichment, topic  *)
(* modeling, in-batch deduplication, persistence) and the Unifier of       *)
(* src/src/transformers/sentiment_transformer.py.                          *)
(*                                                                         *)
(* Encoding of values.  A text (title, tweet body) is a natural number     *)
(* standing for one string; 0 stands for the empty string.  A DataFrame is *)
(* a record [cols, rows]: the set of its column names and the sequence of  *)
(* its rows.  A composed string is a tagged tuple: <<"url", n>> is the url *)
(* string n, <<"title", n>> the title string n, <<"str", n>> is str(n) and *)
(* <<"news_", k>> is f"news_{k}".  datetime.now() of run k is k.  A value   *)
(* that is not a string is a negative number: None, NaN, the int 42.       *)
(* The twitter backfill job of src/src/transformers/topic_transformer.py   *)
(* works on the same database between the runs of main.                    *)
(***************************************************************************)
EXTENDS Integers, Sequences, FiniteSets, TLC

\* ------------------------------------------------------------------ bounds
MaxRuns == 2
MaxReddit == 6
MaxTweets == 1
MaxNews == 6
MaxShift == 1
UMaxLen == 2
MaxBackfills == 1
MaxCalls == 3
NMaxLen == 3
BigNews == 12

\* ------------------------------------------------------- program constants
\* the literal of "if len(all_texts) > 10"
MinCorpus == 10
\* TopicModeler(n_topics=5)
NTopics == 5
\* the backfill job's "n_topics = 5  # Default if no topics exist"
DefaultTopics == 5
\* max_results = min(twitter_settings["tweets_per_term"], 100)
MaxResultsCap == 100

\* ------------------------------------------------------------------ values
\* A local variable of main that no statement has assigned yet.
Unassigned == [unassigned |-> TRUE]
\* The outcome of a call that raised instead of returning.
Raised == [raised |-> TRUE]

Range(s) == {s[i] : i \in DOMAIN s}

\* Values that are not strings: None, the float NaN pandas puts where a
\* record has no value for a column, and the int 42.
NoneValue == -1
NaN == -2
FortyTwo == -42
\* isinstance(v, str)
IsStr(v) == v >= 0
\* bool(v): the empty string and None are false, every other value is true.
Truthy(v) == v # 0 /\ v # NoneValue

\* pd.DataFrame(): no columns, no rows.
EmptyFrame == [cols |-> {}, rows |-> <<>>]
\* DataFrame.empty
Empty(df) == Len(df.rows) = 0

RedditColumns ==
    {"id", "title", "text", "created_utc", "score", "num_comments", "url",
     "author", "subreddit", "source"}
TwitterColumns ==
    <<"id", "text", "created_at", "user_id", "user_name", "user_followers",
      "retweet_count", "reply_count", "like_count", "quote_count",
      "location", "keyword", "source">>
NewsColumns == {"title", "url", "source", "category", "extracted_at"}

\* pd.DataFrame(columns=[...]): the twitter columns and no row.
EmptyTweets == [cols |-> Range(TwitterColumns), rows |-> <<>>]
\* pd.DataFrame([...]) of the except branch: the thirteen names are DATA, one
\* row per name under the single column 0, so this frame is not empty and has
\* no "text" column.
FallbackTweets ==
    [cols |-> {"0"},
     rows |-> [i \in 1..Len(TwitterColumns) |-> [c0 |-> TwitterColumns[i]]]]

\* -------------------------------------------------- the documents out there
\* The k-th post of the subreddit listing.  Every third post has no url of
\* its own: an odd one has the empty url, an even one links the url of the
\* post before it (a crosspost).
RedditDoc(k) ==
    [id |-> k, title |-> k,
     url |-> IF k % 3 = 0 THEN (IF k % 2 = 0 THEN k - 1 ELSE 0) ELSE k,
     created_utc |-> k]
\* The k-th tweet of the search.
TweetDoc(k) == [id |-> k, text |-> 200 + k, created_at |-> k]
\* The k-th headline of the front pages; every seventh one repeats the one
\* before it (the same article listed in two categories).
NewsDoc(k) ==
    LET kk == IF k % 7 = 0 THEN k - 1 ELSE k
    IN [title |-> 100 + kk, url |-> kk, extracted_at |-> kk]

\* What extract_multiple_subreddits returns: n posts, or pd.DataFrame().
RedditFrame(n) ==
    IF n = 0 THEN EmptyFrame
    ELSE [cols |-> RedditColumns, rows |-> [i \in 1..n |-> RedditDoc(i)]]
\* What fetch_tweets_for_keyword returns: n tweets starting after tweet off.
TweetFrame(off, n) ==
    [cols |-> Range(TwitterColumns),
     rows |-> [i \in 1..n |-> TweetDoc(off + i)]]
\* What extract_from_all_sources returns: n headlines starting after
\* headline off of the feed, or pd.DataFrame().
NewsFrame(off, n) ==
    IF n = 0 THEN EmptyFrame
    ELSE [cols |-> NewsColumns, rows |-> [i \in 1..n |-> NewsDoc(off + i)]]

\* The batch sizes the extractors are tried with.
RedditLens == {n \in 0..MaxReddit : n = 0 \/ n >= MaxReddit - 2}
TweetLens == 0..MaxTweets
NewsLens ==
    {n \in 0..MaxNews : n = 0 \/ n >= MaxNews - 1} \cup {BigNews}
Shifts == 0..MaxShift

\* ------------------------------------------------------- sequence helpers
RECURSIVE SelectIdx(_, _, _)
\* The rows whose index is in keep, in order, from index i on.
SelectIdx(rows, keep, i) ==
    IF i > Len(rows) THEN <<>>
    ELSE (IF i \in keep THEN <<rows[i]>> ELSE <<>>)
         \o SelectIdx(rows, keep, i + 1)

\* DataFrame.drop_duplicates(subset=..., keep="first") on rows whose subset
\* values are keys[i]: a row stays iff no earlier row has its key.
drop_duplicates_keep_last(rows, keys) ==
    SelectIdx(rows,
              {i \in 1..Len(rows) :
                  \A j \in (i + 1)..Len(rows) : keys[j] # keys[i]}, 1)
drop_duplicates(rows, keys) ==
    SelectIdx(rows,
              {i \in 1..Len(rows) : \A j \in 1..(i - 1) : keys[j] # keys[i]},
              1)

\* ------------------------------------------------------- Sentiment Scorer
ZeroScore == [compound |-> 0, pos |-> 0, neu |-> 0, neg |-> 0]
\* SentimentTransformer.__init__: the instance holds one analyzer, and the
\* analyzer the lexicon it loaded.
NewTransformer == [analyzer |-> [lexicon |-> 0]]
\* SentimentIntensityAnalyzer.polarity_scores: a function of the text and of
\* the analyzer's lexicon; it raises on a value that is not a string.
polarity_scores_with(analyzer, text) ==
    LET c == ((text + analyzer.lexicon) % 3) - 1
    IN IF ~IsStr(text) THEN Raised
       ELSE [compound |-> c,
             pos |-> IF c > 0 THEN 1 ELSE 0,
             neu |-> IF c = 0 THEN 1 ELSE 0,
             neg |-> IF c < 0 THEN 1 ELSE 0]
polarity_scores(text) == polarity_scores_with(NewTransformer.analyzer, text)
\* analyze_text(self, text): "if not text or not isinstance(text, str)"
\* returns the zero score, every other text goes to self.analyzer.
analyze_text_of_untyped(self, text) ==
    IF ~Truthy(text) THEN ZeroScore
    ELSE polarity_scores_with(self.analyzer, text)
analyze_text_of(self, text) ==
    IF ~Truthy(text) \/ ~IsStr(text) THEN ZeroScore
    ELSE polarity_scores_with(self.analyzer, text)
\* The transformer after a call of analyze_text: the method assigns nothing.
self_after_analyze_text_learning(self, text) ==
    IF IsStr(text) /\ Truthy(text)
    THEN [analyzer |-> [lexicon |-> self.analyzer.lexicon + 1]]
    ELSE self
self_after_analyze_text(self, text) == self
\* analyze_text on the transformer as main constructs it.
analyze_text(text) == analyze_text_of(NewTransformer, text)

\* ------------------------------------------------------ Source Normalizers
\* Each returns the frame itself when it is empty, raises KeyError when the
\* primary text column is missing, and else a copy with the sentiment
\* columns and processed_at added.
transform_reddit_data(df, now) ==
    IF Empty(df) THEN df
    ELSE IF "title" \notin df.cols THEN Raised
    ELSE [cols |-> df.cols \cup {"title_sentiment", "processed_at"},
          rows |-> [i \in 1..Len(df.rows) |->
                      df.rows[i] @@
                      [title_sentiment |-> analyze_text(df.rows[i].title),
                       processed_at |-> now]]]

transform_twitter_data(df, now) ==
    IF Empty(df) THEN df
    ELSE IF "text" \notin df.cols THEN Raised
    ELSE [cols |-> df.cols \cup {"text_sentiment", "processed_at"},
          rows |-> [i \in 1..Len(df.rows) |->
                      df.rows[i] @@
                      [text_sentiment |-> analyze_text(df.rows[i].text),
                       processed_at |-> now]]]

transform_news_data(df, now) ==
    IF Empty(df) THEN df
    ELSE IF "title" \notin df.cols THEN Raised
    ELSE [cols |-> df.cols \cup {"title_sentiment", "processed_at"},
          rows |-> [i \in 1..Len(df.rows) |->
                      df.rows[i] @@
                      [title_sentiment |-> analyze_text(df.rows[i].title),
                       processed_at |-> now]]]

\* What a normalizer leaves of the frame it was given: it works on
\* result_df = df.copy(), so the frame of the caller is as it was.
InputAfter_aliased(df, result_df) ==
    IF result_df = Raised THEN df ELSE result_df
InputAfter(df, result_df) == df

\* ------------------------------------------------------------------ Unifier
UnifiedColumns ==
    {"source", "source_id", "text", "created_at", "sentiment_compound",
     "sentiment_positive", "sentiment_neutral", "sentiment_negative",
     "processed_at"}

\* row.get('url', '') or row.get('title', '')
RedditSourceId(row) ==
    IF row.url # 0 THEN <<"url", row.url>> ELSE <<"title", row.title>>
\* str(row.get('id', ''))
TwitterSourceId(row) == <<"str", row.id>>
\* f"news_{news_counter}" with news_counter the 1-based position of the row
NewsSourceId(row, news_counter) == <<"news_", news_counter>>

UnifyReddit(row) ==
    [source |-> "reddit", source_id |-> RedditSourceId(row),
     text |-> row.title, created_at |-> row.created_utc,
     sentiment_compound |-> row.title_sentiment.compound,
     sentiment_positive |-> row.title_sentiment.pos,
     sentiment_neutral |-> row.title_sentiment.neu,
     sentiment_negative |-> row.title_sentiment.neg,
     processed_at |-> row.processed_at]
UnifyTwitter(row) ==
    [source |-> "twitter", source_id |-> TwitterSourceId(row),
     text |-> row.text, created_at |-> row.created_at,
     sentiment_compound |-> row.text_sentiment.compound,
     sentiment_positive |-> row.text_sentiment.pos,
     sentiment_neutral |-> row.text_sentiment.neu,
     sentiment_negative |-> row.text_sentiment.neg,
     processed_at |-> row.processed_at]
UnifyNews(row, news_counter) ==
    [source |-> "news", source_id |-> NewsSourceId(row, news_counter),
     text |-> row.title, created_at |-> row.extracted_at,
     sentiment_compound |-> row.title_sentiment.compound,
     sentiment_positive |-> row.title_sentiment.pos,
     sentiment_neutral |-> row.title_sentiment.neu,
     sentiment_negative |-> row.title_sentiment.neg,
     processed_at |-> row.processed_at]

\* The order in which the three groups are appended to unified_data.
Concat3_news_first(r, t, n) == n \o r \o t
Concat3(r, t, n) == r \o t \o n

\* transform_all_sources: Raised when a normalizer raised, else the unified
\* frame (pd.DataFrame([]) has no columns when nothing was appended).
transform_all_sources(reddit_df, twitter_df, news_df, now) ==
    LET reddit_transformed ==
            IF ~Empty(reddit_df) THEN transform_reddit_data(reddit_df, now)
            ELSE EmptyFrame
        twitter_transformed ==
            IF ~Empty(twitter_df) THEN transform_twitter_data(twitter_df, now)
            ELSE EmptyFrame
        news_transformed ==
            IF ~Empty(news_df) THEN transform_news_data(news_df, now)
            ELSE EmptyFrame
    IN IF \/ reddit_transformed = Raised
          \/ twitter_transformed = Raised
          \/ news_transformed = Raised
       THEN Raised
       ELSE LET unified_data ==
                    Concat3(
                      [i \in 1..Len(reddit_transformed.rows) |->
                          UnifyReddit(reddit_transformed.rows[i])],
                      [i \in 1..Len(twitter_transformed.rows) |->
                          UnifyTwitter(twitter_transformed.rows[i])],
                      [i \in 1..Len(news_transformed.rows) |->
                          UnifyNews(news_transformed.rows[i], i)])
            IN IF unified_data = <<>> THEN EmptyFrame
               ELSE [cols |-> UnifiedColumns, rows |-> unified_data]

\* ------------------------------------------------------------- Topic Modeler
RECURSIVE SumSeq(_)
SumSeq(s) == IF s = <<>> THEN 0 ELSE Head(s) + SumSeq(Tail(s))

\* TopicModeler(n_topics).fit(corpus): the fitted model is a fixed function of
\* the corpus (deterministic seed); mix stands for its topic-term matrix.
fit(corpus, n_topics) ==
    [n_topics |-> n_topics, mix |-> SumSeq(corpus) % n_topics]
\* get_topic_keywords / get_topic_name: lookups into the fitted model.
get_topic_keywords(model, topic_id) == <<"kw", model.mix, topic_id>>
get_topic_name(model, topic_id) == <<"Topic", topic_id, model.mix>>
\* TopicModeler.transform for one text: argmax topic, its probability (in
\* percent) and the topic's keywords.
transform_text(model, text) ==
    LET t == (text + model.mix) % model.n_topics
    IN [text |-> text, topic_id |-> t, topic_confidence |-> 50,
        topic_keywords |-> get_topic_keywords(model, t)]

\* ---------------------------------------------------------------- the store
Collections ==
    {"raw_reddit_posts", "raw_twitter_posts", "raw_news_articles",
     "sentiment_analysis", "topics"}

\* Collection.insert_many(records) on a store that is reachable (up) or not:
\* pymongo raises on an unreachable server and on an empty document list.
insert_many_raises(records, up) == ~up \/ records = <<>>

\* store_to_mongodb(df, mongo_client, database, collection): the records of
\* the frame are appended to the collection as they are; nothing already in
\* the collection is looked at.
store_to_mongodb_upsert(df, up, database, collection) ==
    LET old == database[collection]
        fresh == SelectIdx(df.rows,
                   {i \in 1..Len(df.rows) :
                      \A j \in 1..Len(old) :
                         ~(/\ "source_id" \in DOMAIN old[j]
                           /\ "source_id" \in DOMAIN df.rows[i]
                           /\ old[j].source = df.rows[i].source
                           /\ old[j].source_id = df.rows[i].source_id)}, 1)
    IN IF insert_many_raises(df.rows, up)
       THEN [raised |-> TRUE, db |-> database, inserted |-> 0]
       ELSE [raised |-> FALSE,
             db |-> [database EXCEPT ![collection] = @ \o fresh],
             inserted |-> Len(fresh)]
store_to_mongodb_replace(df, up, database, collection) ==
    IF insert_many_raises(df.rows, up)
    THEN [raised |-> TRUE, db |-> database, inserted |-> 0]
    ELSE [raised |-> FALSE,
          db |-> [database EXCEPT ![collection] = df.rows],
          inserted |-> Len(df.rows)]
store_to_mongodb(df, up, database, collection) ==
    IF insert_many_raises(df.rows, up)
    THEN [raised |-> TRUE, db |-> database, inserted |-> 0]
    ELSE [raised |-> FALSE,
          db |-> [database EXCEPT ![collection] = @ \o df.rows],
          inserted |-> Len(df.rows)]

\* ------------------------------------------------------------------- state
VARIABLES
    run,                    \* the number of the run; also its datetime.now()
    pc,                     \* the stage of main the run is at
    store_up,               \* whether the MongoDB server is reachable
    reddit_posts,           \* main's locals
    tweets,
    headlines,
    unified_sentiment_data,
    outcome,                \* what each acquisition did in this run
    calls,                  \* the extractor fetches made in this run
    errors,                 \* the stages whose except clause logged an error
    fit_corpus,             \* [texts]: the corpus TopicModeler.fit was called with
    writes,                 \* the insert_many calls made in this run
    prev_inputs,            \* the batches the previous run worked on
    db,                     \* the collections of the database
    u_reddit, u_twitter, u_news,   \* arguments of one transform_all_sources
    u_out,                         \* call, and what it returned
    transformer,            \* a SentimentTransformer instance
    s_calls,                \* the analyze_text calls made on it so far
    n_kind, n_df, n_out,    \* one normalizer call: which, on what, result
    backfills,              \* the twitter backfill jobs run so far
    backfill,               \* what the last backfill job did
    settings,               \* the "twitter" section of config/settings.yaml
    dashboard               \* what the dashboard last loaded

vars ==
    <<run, pc, store_up, reddit_posts, tweets, headlines,
      unified_sentiment_data, outcome, calls, errors, fit_corpus, writes,
      prev_inputs, db, u_reddit, u_twitter, u_news, u_out, transformer,
      s_calls, n_kind, n_df, n_out, backfills, backfill, settings,
      dashboard>>
locals ==
    <<reddit_posts, tweets, headlines, unified_sentiment_data>>
unify_vars == <<u_reddit, u_twitter, u_news, u_out>>
\* Nothing acquired yet; fetch is the arguments of the twitter fetch.
NoOutcome ==
    [reddit |-> "none", twitter |-> "none", news |-> "none",
     fetch |-> Unassigned]
\* A twitter section: tweets_per_term, search_terms, include_retweets.
TwitterSettings(tweets_per_term, search_terms, include_retweets) ==
    [tweets_per_term |-> tweets_per_term, search_terms |-> search_terms,
     include_retweets |-> include_retweets]
\* The settings main is run with: twitter switched off, twitter with two
\* search terms and more tweets per term than one request may ask for, and
\* twitter without a search term.
MainSettings ==
    {TwitterSettings(0, <<"t1", "t2">>, FALSE),
     TwitterSettings(MaxResultsCap + 50, <<"t1", "t2">>, FALSE),
     TwitterSettings(MaxTweets, <<>>, FALSE)}
\* The settings file is there and the dashboard has loaded nothing.
IdleEnv ==
    /\ settings \in {TwitterSettings(0, <<"t1", "t2">>, FALSE)}
    /\ dashboard = Unassigned
score_vars == <<transformer, s_calls>>
norm_vars == <<n_kind, n_df, n_out>>
job_vars == <<backfills, backfill>>
env_vars == <<settings, dashboard>>
run_vars ==
    <<run, pc, store_up, locals, outcome, calls, errors, fit_corpus, writes,
      prev_inputs, db>>
\* The variables of the calls that are looked at on their own.
aux_vars == <<unify_vars, score_vars, norm_vars>>

\* No transform_all_sources call, analyze_text call, normalizer call or
\* backfill job is under way or has been made.
IdleUnify ==
    /\ u_reddit = EmptyFrame
    /\ u_twitter = EmptyFrame
    /\ u_news = EmptyFrame
    /\ u_out = Unassigned
IdleScore ==
    /\ transformer = NewTransformer
    /\ s_calls = <<>>
IdleNorm ==
    /\ n_kind = "none"
    /\ n_df = EmptyFrame
    /\ n_out = Unassigned
NoBackfill ==
    /\ backfills = 0
    /\ backfill = Unassigned
\* main has not been started and the database is empty.
IdleRun ==
    /\ run = 1
    /\ store_up = TRUE
    /\ reddit_posts = Unassigned
    /\ tweets = Unassigned
    /\ headlines = Unassigned
    /\ unified_sentiment_data = Unassigned
    /\ outcome = NoOutcome
    /\ calls = <<>>
    /\ errors = {}
    /\ fit_corpus = Unassigned
    /\ writes = <<>>
    /\ prev_inputs = Unassigned
    /\ db = [c \in Collections |-> <<>>]

Init ==
    /\ run = 1
    /\ pc = "start"
    /\ store_up = TRUE
    /\ reddit_posts = Unassigned
    /\ tweets = Unassigned
    /\ headlines = Unassigned
    /\ unified_sentiment_data = Unassigned
    /\ outcome = NoOutcome
    /\ calls = <<>>
    /\ errors = {}
    /\ fit_corpus = Unassigned
    /\ writes = <<>>
    /\ prev_inputs = Unassigned
    /\ db = [c \in Collections |-> <<>>]
    /\ u_reddit = EmptyFrame
    /\ u_twitter = EmptyFrame
    /\ u_news = EmptyFrame
    /\ u_out = Unassigned
    /\ IdleScore
    /\ IdleNorm
    /\ NoBackfill
    /\ settings \in MainSettings
    /\ dashboard = Unassigned

\* One insert_many call as the log of the run records it.
WriteEntry(collection, df, res) ==
    [collection |-> collection, docs |-> df.rows, ok |-> ~res.raised,
     count |-> res.inserted]

\* main, lines 54-59: MongoClient(...).  The constructor raises on a bad
\* connection string or missing setting and main returns; it does not contact
\* the server, so it returns normally whether the server is reachable or not.
Connect ==
    /\ pc = "start"
    /\ run <= MaxRuns
    /\ \E up \in BOOLEAN, ctor_raises \in BOOLEAN :
          /\ store_up' = up
          /\ pc' = IF ctor_raises THEN "aborted" ELSE "reddit"
          /\ errors' = IF ctor_raises THEN {"connect"} ELSE errors
    /\ UNCHANGED <<run, locals, outcome, calls, fit_corpus, writes,
                   prev_inputs, db, aux_vars,
                   job_vars, env_vars>>

\* main is straight-line code: a stage is followed by the next one whether
\* its try block ran through or its except clause caught an exception.
NextStage_retry(stage, failed) ==
    IF failed THEN stage
    ELSE CASE stage = "reddit" -> "twitter"
           [] stage = "twitter" -> "news"
           [] stage = "news" -> "sentiment"
           [] stage = "sentiment" -> "topic"
           [] stage = "topic" -> "end"
NextStage_reraise(stage, failed) ==
    IF failed THEN "aborted"
    ELSE CASE stage = "reddit" -> "twitter"
           [] stage = "twitter" -> "news"
           [] stage = "news" -> "sentiment"
           [] stage = "sentiment" -> "topic"
           [] stage = "topic" -> "end"
NextStage_swapped(stage, failed) ==
    CASE stage = "reddit" -> "news"
      [] stage = "news" -> "twitter"
      [] stage = "twitter" -> "sentiment"
      [] stage = "sentiment" -> "topic"
      [] stage = "topic" -> "end"
NextStage(stage, failed) ==
    CASE stage = "reddit" -> "twitter"
      [] stage = "twitter" -> "news"
      [] stage = "news" -> "sentiment"
      [] stage = "sentiment" -> "topic"
      [] stage = "topic" -> "end"

\* main, lines 61-81: reddit extraction and the raw write.
RedditStage ==
    /\ pc = "reddit"
    /\ \/ \* RedditExtractor() raises (connect): reddit_posts is never bound
          /\ outcome' = [outcome EXCEPT !.reddit = "raised"]
          /\ errors' = errors \cup {"reddit"}
          /\ UNCHANGED <<reddit_posts, calls, writes, db>>
       \/ \E n \in RedditLens :
             LET posts == RedditFrame(n)
                 res == store_to_mongodb(posts, store_up, db,
                                         "raw_reddit_posts")
             IN /\ reddit_posts' = posts
                /\ outcome' = [outcome EXCEPT
                       !.reddit = IF n = 0 THEN "empty" ELSE "batch"]
                /\ calls' = Append(calls, "reddit")
                /\ writes' = Append(writes,
                       WriteEntry("raw_reddit_posts", posts, res))
                /\ db' = res.db
                /\ errors' = IF res.raised THEN errors \cup {"reddit"}
                             ELSE errors
    /\ pc' = NextStage("reddit", "reddit" \in errors')
    /\ UNCHANGED <<run, store_up, tweets, headlines, unified_sentiment_data,
                   fit_corpus, prev_inputs, aux_vars, job_vars, env_vars>>

\* main, lines 94-120: twitter is skipped when tweets_per_term is 0 and when
\* there is no search term.
SkipsTwitter(ts) == ts.tweets_per_term = 0 \/ ts.search_terms = <<>>
\* main, lines 98-105: the arguments of the one fetch, for the first term.
FetchArgs(ts) ==
    [keyword |-> ts.search_terms[1],
     max_results |-> IF ts.tweets_per_term < MaxResultsCap
                     THEN ts.tweets_per_term ELSE MaxResultsCap,
     include_retweets |-> ts.include_retweets]

\* main, lines 83-128: twitter extraction and the raw write.  Every exception
\* of the stage rebinds tweets to the fallback frame of the except clause.
TwitterStage ==
    /\ pc = "twitter"
    /\ \/ \* tweets_per_term == 0, or no search term: no fetch, no write
          /\ SkipsTwitter(settings)
          /\ tweets' = EmptyTweets
          /\ outcome' = [outcome EXCEPT !.twitter = "skipped"]
          /\ UNCHANGED <<calls, writes, db, errors>>
       \/ \* TwitterExtractorMinimal() raises, whatever the settings say
          /\ tweets' = FallbackTweets
          /\ outcome' = [outcome EXCEPT !.twitter = "raised"]
          /\ errors' = errors \cup {"twitter"}
          /\ UNCHANGED <<calls, writes, db>>
       \/ \* fetch_tweets_for_keyword raises
          /\ ~SkipsTwitter(settings)
          /\ tweets' = FallbackTweets
          /\ outcome' = [outcome EXCEPT !.twitter = "raised",
                                        !.fetch = FetchArgs(settings)]
          /\ calls' = Append(calls, "twitter")
          /\ errors' = errors \cup {"twitter"}
          /\ UNCHANGED <<writes, db>>
       \/ /\ ~SkipsTwitter(settings)
          /\ \E n \in TweetLens :
             LET fetched == TweetFrame(0, n)
                 res == store_to_mongodb(fetched, store_up, db,
                                         "raw_twitter_posts")
             IN /\ n <= FetchArgs(settings).max_results
                /\ tweets' = IF res.raised THEN FallbackTweets ELSE fetched
                /\ outcome' = [outcome EXCEPT
                       !.twitter = IF n = 0 THEN "empty" ELSE "batch",
                       !.fetch = FetchArgs(settings)]
                /\ calls' = Append(calls, "twitter")
                /\ writes' = Append(writes,
                       WriteEntry("raw_twitter_posts", fetched, res))
                /\ db' = res.db
                /\ errors' = IF res.raised THEN errors \cup {"twitter"}
                             ELSE errors
    /\ pc' = NextStage("twitter", "twitter" \in errors')
    /\ UNCHANGED <<run, store_up, reddit_posts, headlines,
                   unified_sentiment_data, fit_corpus, prev_inputs,
                   aux_vars, job_vars, env_vars>>

\* headlines.drop_duplicates(subset=["title", "url"], keep="first")
DedupHeadlines(df) ==
    IF Empty(df) THEN df
    ELSE [cols |-> df.cols,
          rows |-> drop_duplicates(df.rows,
                     [i \in 1..Len(df.rows) |->
                         <<df.rows[i].title, df.rows[i].url>>])]

\* main, lines 130-157: news extraction, its de-duplication, the raw write.
NewsStage ==
    /\ pc = "news"
    /\ \/ \* no "categories" setting: raise before headlines is bound
          /\ outcome' = [outcome EXCEPT !.news = "raised"]
          /\ errors' = errors \cup {"news"}
          /\ UNCHANGED <<headlines, calls, writes, db>>
       \/ \E n \in NewsLens, off \in Shifts :
             LET deduped == DedupHeadlines(NewsFrame(off, n))
                 res == store_to_mongodb(deduped, store_up, db,
                                         "raw_news_articles")
             IN /\ headlines' = deduped
                /\ outcome' = [outcome EXCEPT
                       !.news = IF n = 0 THEN "empty" ELSE "batch"]
                /\ calls' = Append(calls, "news")
                /\ writes' = Append(writes,
                       WriteEntry("raw_news_articles", deduped, res))
                /\ db' = res.db
                /\ errors' = IF res.raised THEN errors \cup {"news"}
                             ELSE errors
    /\ pc' = NextStage("news", "news" \in errors')
    /\ UNCHANGED <<run, store_up, reddit_posts, tweets,
                   unified_sentiment_data, fit_corpus, prev_inputs,
                   aux_vars, job_vars, env_vars>>

\* main, lines 208-213: the batches without which no unified batch is built.
\* The test of tweets.empty is commented out in the source.
HardDependencyMissing_with_tweets(reddit, tw, news) ==
    Empty(reddit) \/ Empty(tw) \/ Empty(news)
HardDependencyMissing_news_only(reddit, tw, news) == Empty(news)
HardDependencyMissing(reddit, tw, news) == Empty(reddit) \/ Empty(news)

\* main, lines 159-235: the enrichment stage.  Reading a local that was never
\* bound (lines 164-166) raises NameError; the inner twitter transform of
\* lines 171-177 binds only twitter_result, which nothing reads; lines 179-202
\* rebind nothing once lines 164-166 have passed.  The frames main holds are
\* after the stage what the normalizers called on them left of them.
SentimentStage ==
    /\ pc = "sentiment"
    /\ \E name_error \in {\/ reddit_posts = Unassigned
                          \/ tweets = Unassigned
                          \/ headlines = Unassigned} :
       \E called \in {IF name_error THEN FALSE
                      ELSE ~HardDependencyMissing(reddit_posts, tweets,
                                                  headlines)} :
       \E result \in {IF called
                      THEN transform_all_sources(reddit_posts, tweets,
                                                 headlines, run)
                      ELSE Raised} :
          /\ unified_sentiment_data' =
                 IF result = Raised THEN unified_sentiment_data ELSE result
          /\ errors' = IF result = Raised THEN errors \cup {"sentiment"}
                       ELSE errors
          /\ reddit_posts' =
                 IF called
                 THEN InputAfter(reddit_posts,
                                 transform_reddit_data(reddit_posts, run))
                 ELSE reddit_posts
          /\ tweets' =
                 IF name_error THEN tweets
                 ELSE InputAfter(tweets, transform_twitter_data(tweets, run))
          /\ headlines' =
                 IF called /\ transform_twitter_data(tweets, run) # Raised
                 THEN InputAfter(headlines,
                                 transform_news_data(headlines, run))
                 ELSE headlines
    /\ pc' = NextStage("sentiment", "sentiment" \in errors')
    /\ UNCHANGED <<run, store_up, outcome, calls, fit_corpus, writes,
                   prev_inputs, db, aux_vars, job_vars, env_vars>>

\* main, lines 243-255: the corpus of the run; tweets["text"] raises KeyError
\* on a non-empty frame without that column.
all_texts(reddit, tw, news) ==
    IF tw # Unassigned /\ ~Empty(tw) /\ "text" \notin tw.cols
    THEN [raised |-> TRUE, texts |-> <<>>]
    ELSE [raised |-> FALSE,
          texts |->
             (IF reddit # Unassigned /\ ~Empty(reddit)
              THEN [i \in 1..Len(reddit.rows) |-> reddit.rows[i].title]
              ELSE <<>>)
             \o (IF tw # Unassigned /\ ~Empty(tw)
                 THEN [i \in 1..Len(tw.rows) |-> tw.rows[i].text]
                 ELSE <<>>)
             \o (IF news # Unassigned /\ ~Empty(news)
                 THEN [i \in 1..Len(news.rows) |-> news.rows[i].title]
                 ELSE <<>>)]

\* main, line 257: whether the corpus is large enough to fit a model.
EnoughTexts(n) == n > MinCorpus

TopicColumns == {"topic_id", "topic_confidence", "topic_keywords"}
\* main, lines 277-279: the defaults ("Unknown" as a one-word keyword list).
TopicDefaults ==
    [topic_id |-> -1, topic_confidence |-> 0, topic_keywords |-> <<"Unknown">>]

\* main, lines 267-286: the topic columns of every unified row, looked up by
\* the row's text in text_to_topic (the transform of the corpus).
AssignTopics_reddit_only(rows, texts, model) ==
    [i \in 1..Len(rows) |->
        IF rows[i].text \in Range(texts) /\ rows[i].source = "reddit"
        THEN LET result == transform_text(model, rows[i].text)
             IN rows[i] @@
                [topic_id |-> result.topic_id,
                 topic_confidence |-> result.topic_confidence,
                 topic_keywords |-> result.topic_keywords]
        ELSE rows[i] @@ TopicDefaults]
AssignTopics(rows, texts, model) ==
    [i \in 1..Len(rows) |->
        IF rows[i].text \in Range(texts)
        THEN LET result == transform_text(model, rows[i].text)
             IN rows[i] @@
                [topic_id |-> result.topic_id,
                 topic_confidence |-> result.topic_confidence,
                 topic_keywords |-> result.topic_keywords]
        ELSE rows[i] @@ TopicDefaults]

\* The dedup key of a unified row.
DedupKey(row) == <<row.source, row.source_id>>

\* main, lines 303-308: one document per topic of the fitted model.
TopicInfo(model, now) ==
    [cols |-> {"topic_id", "topic_name", "topic_keywords", "created_at"},
     rows |-> [i \in 1..model.n_topics |->
                 [topic_id |-> i - 1,
                  topic_name |-> get_topic_name(model, i - 1),
                  topic_keywords |-> get_topic_keywords(model, i - 1),
                  created_at |-> now]]]

\* main, lines 237-321: the topic-modeling stage, with the in-batch
\* deduplication and the writes to sentiment_analysis and topics inside it.
\* (\E x \in {e} names the value of e, as an assignment to a local does.)
TopicStage ==
    /\ pc = "topic"
    /\ \E corpus \in {all_texts(reddit_posts, tweets, headlines)} :
          IF corpus.raised
          THEN /\ errors' = errors \cup {"topic"}
               /\ UNCHANGED <<unified_sentiment_data, fit_corpus, writes, db>>
          ELSE IF ~EnoughTexts(Len(corpus.texts))
          THEN UNCHANGED <<unified_sentiment_data, fit_corpus, writes, db,
                           errors>>
          ELSE \E model \in {fit(corpus.texts, NTopics)} :
                  /\ fit_corpus' = [texts |-> corpus.texts]
                  /\ IF /\ unified_sentiment_data # Unassigned
                        /\ ~Empty(unified_sentiment_data)
                     THEN \E assigned \in
                                 {AssignTopics(unified_sentiment_data.rows,
                                               corpus.texts, model)} :
                          \E keys \in {[i \in 1..Len(assigned) |->
                                          DedupKey(assigned[i])]} :
                          \E deduped \in
                                 {[cols |-> unified_sentiment_data.cols
                                              \cup TopicColumns,
                                   rows |-> drop_duplicates(assigned, keys)]} :
                          \E res1 \in {store_to_mongodb(deduped, store_up, db,
                                          "sentiment_analysis")} :
                          \E topic_info \in {TopicInfo(model, run)} :
                          \E res2 \in {store_to_mongodb(topic_info, store_up,
                                          res1.db, "topics")} :
                             /\ unified_sentiment_data' = deduped
                             /\ IF Empty(deduped)
                                THEN /\ writes' = Append(writes,
                                          WriteEntry("topics", topic_info,
                                                     res2))
                                     /\ db' = res2.db
                                     /\ errors' = IF res2.raised
                                                  THEN errors \cup {"topic"}
                                                  ELSE errors
                                ELSE IF res1.raised
                                THEN /\ writes' = Append(writes,
                                          WriteEntry("sentiment_analysis",
                                                     deduped, res1))
                                     /\ db' = db
                                     /\ errors' = errors \cup {"topic"}
                                ELSE /\ writes' = writes \o
                                          <<WriteEntry("sentiment_analysis",
                                                       deduped, res1),
                                            WriteEntry("topics", topic_info,
                                                       res2)>>
                                     /\ db' = res2.db
                                     /\ errors' = IF res2.raised
                                                  THEN errors \cup {"topic"}
                                                  ELSE errors
                     ELSE UNCHANGED <<unified_sentiment_data, writes, db,
                                      errors>>
    /\ pc' = NextStage("topic", "topic" \in errors')
    /\ UNCHANGED <<run, store_up, reddit_posts, tweets, headlines, outcome,
                   calls, prev_inputs, aux_vars, job_vars, env_vars>>

\* The process of a run is over, its locals are gone; the database is what
\* the runs so far left, and main can be started again.
StartRun ==
    /\ pc \in {"end", "aborted"}
    /\ run <= MaxRuns
    /\ run' = run + 1
    /\ pc' = "start"
    /\ prev_inputs' =
          IF pc = "end"
          THEN [reddit_posts |-> reddit_posts, tweets |-> tweets,
                headlines |-> headlines, store_up |-> store_up]
          ELSE Unassigned
    /\ reddit_posts' = Unassigned
    /\ tweets' = Unassigned
    /\ headlines' = Unassigned
    /\ unified_sentiment_data' = Unassigned
    /\ outcome' = NoOutcome
    /\ calls' = <<>>
    /\ errors' = {}
    /\ fit_corpus' = Unassigned
    /\ writes' = <<>>
    /\ UNCHANGED <<store_up, db, aux_vars, job_vars, env_vars>>

\* ------------------------------------------------ the twitter backfill job
\* datetime.now() of the k-th backfill job: a time no run of main has.
BackfillNow(k) == 100 + k

\* pd.DataFrame(raw_tweets) of the documents found in raw_twitter_posts.
RawTweetsFrame(raw_tweets) ==
    [cols |-> Range(TwitterColumns) \cup {"_id"}, rows |-> raw_tweets]

\* topic_transformer.py, lines 43-59: the unified record of the
\* twitter_counter-th raw tweet, with the default topic values.
BackfillUnify(row, twitter_counter) ==
    [source |-> "twitter", source_id |-> <<"twitter_", twitter_counter>>,
     text |-> row.text, created_at |-> row.created_at,
     sentiment_compound |-> row.text_sentiment.compound,
     sentiment_positive |-> row.text_sentiment.pos,
     sentiment_neutral |-> row.text_sentiment.neu,
     sentiment_negative |-> row.text_sentiment.neg,
     processed_at |-> row.processed_at,
     topic_id |-> -1, topic_confidence |-> 0, topic_keywords |-> <<>>]

\* lines 61-63: the texts of the documents of sentiment_analysis.
existing_texts(database) ==
    LET docs == SelectSeq(database["sentiment_analysis"],
                          LAMBDA d : "text" \in DOMAIN d)
    IN [i \in 1..Len(docs) |-> docs[i].text]

\* lines 72-75: the topic count is the number of documents in topics.
BackfillTopicCount(database) ==
    IF Len(database["topics"]) = 0 THEN DefaultTopics
    ELSE Len(database["topics"])

\* lines 77-80: whether the job fits a model on a corpus of n texts; the
\* script has no test of the corpus size.
BackfillFits(n) == TRUE

\* lines 82-89: the topic of each twitter text, written back by position.
BackfillAssign(rows, model) ==
    [i \in 1..Len(rows) |->
        LET result == transform_text(model, rows[i].text)
        IN [rows[i] EXCEPT !.topic_id = result.topic_id,
                           !.topic_confidence = result.topic_confidence,
                           !.topic_keywords = result.topic_keywords]]

\* topic_transformer.py, main: one run of the backfill job, between two runs
\* of the pipeline.  Nothing in the script catches an exception: with the
\* store unreachable the first find() raises and the job is over.
BackfillRun ==
    /\ pc = "start"
    /\ backfills < MaxBackfills
    /\ backfills' = backfills + 1
    /\ LET now == BackfillNow(backfills + 1)
           raw_tweets == db["raw_twitter_posts"]
           twitter_transformed ==
               transform_twitter_data(RawTweetsFrame(raw_tweets), now)
           unified_data ==
               [i \in 1..Len(twitter_transformed.rows) |->
                   BackfillUnify(twitter_transformed.rows[i], i)]
           twitter_texts ==
               [i \in 1..Len(unified_data) |-> unified_data[i].text]
           corpus == existing_texts(db) \o twitter_texts
           n_topics == BackfillTopicCount(db)
           model == fit(corpus, n_topics)
           fitted == BackfillFits(Len(corpus))
           records == IF fitted THEN BackfillAssign(unified_data, model)
                      ELSE unified_data
       IN IF ~store_up
          THEN /\ backfill' = [crashed |-> TRUE, found |-> 0,
                               corpus |-> <<>>,
                               fitted |-> FALSE, n_topics |-> 0,
                               inserted |-> <<>>]
               /\ db' = db
          ELSE IF raw_tweets = <<>>
          THEN /\ backfill' = [crashed |-> FALSE, found |-> 0,
                               corpus |-> <<>>,
                               fitted |-> FALSE, n_topics |-> 0,
                               inserted |-> <<>>]
               /\ db' = db
          ELSE /\ backfill' = [crashed |-> FALSE, found |-> Len(raw_tweets),
                               corpus |-> corpus,
                               fitted |-> fitted,
                               n_topics |-> n_topics,
                               inserted |-> records]
               /\ db' = [db EXCEPT !["sentiment_analysis"] = @ \o records]
    /\ UNCHANGED <<run, pc, store_up, locals, outcome, calls, errors,
                   fit_corpus, writes, prev_inputs, aux_vars, env_vars>>

\* dashboard.py, load_sentiment_data and the topics query: the dashboard
\* reads the two collections with find() and writes nothing.
DashboardLoad ==
    /\ pc = "start"
    /\ run > MaxRuns
    /\ dashboard = Unassigned
    /\ dashboard' = IF store_up
                    THEN [sentiment |-> db["sentiment_analysis"],
                          topics |-> db["topics"]]
                    ELSE Raised
    /\ UNCHANGED <<run_vars, aux_vars, job_vars, settings>>

Next ==
    \/ Connect
    \/ RedditStage
    \/ TwitterStage
    \/ NewsStage
    \/ SentimentStage
    \/ TopicStage
    \/ StartRun
    \/ BackfillRun
    \/ DashboardLoad

Spec == Init /\ [][Next]_vars

\* A started run goes on: the process executes main's statements one after
\* the other until it returns.
Stages ==
    RedditStage \/ TwitterStage \/ NewsStage \/ SentimentStage \/ TopicStage
FairSpec == Spec /\ WF_vars(Stages)

\* ------------------------------------- the Unifier alone, on any batches
\* The reddit batches transform_all_sources is tried on.
URedditFrame(off, n) ==
    IF n = 0 THEN EmptyFrame
    ELSE [cols |-> RedditColumns,
          rows |-> [i \in 1..n |-> RedditDoc(off + i)]]

UInit ==
    /\ run = 1
    /\ pc = "unify"
    /\ store_up = TRUE
    /\ reddit_posts = Unassigned
    /\ tweets = Unassigned
    /\ headlines = Unassigned
    /\ unified_sentiment_data = Unassigned
    /\ outcome = NoOutcome
    /\ calls = <<>>
    /\ errors = {}
    /\ fit_corpus = Unassigned
    /\ writes = <<>>
    /\ prev_inputs = Unassigned
    /\ db = [c \in Collections |-> <<>>]
    /\ u_reddit \in {URedditFrame(off, n) : off \in Shifts, n \in 0..UMaxLen}
    /\ u_twitter \in {TweetFrame(off, n) : off \in Shifts, n \in 0..UMaxLen}
    /\ u_news \in {NewsFrame(off, n) : off \in Shifts, n \in 0..UMaxLen}
    /\ u_out = Unassigned
    /\ IdleScore
    /\ IdleNorm
    /\ NoBackfill
    /\ IdleEnv

\* One call transform_all_sources(u_reddit, u_twitter, u_news).
UnifyCall ==
    /\ pc = "unify"
    /\ u_out = Unassigned
    /\ u_out' = transform_all_sources(u_reddit, u_twitter, u_news, run)
    /\ pc' = "returned"
    /\ UNCHANGED <<run, store_up, locals, outcome, calls, errors, fit_corpus,
                   writes, prev_inputs, db, u_reddit, u_twitter, u_news,
                   score_vars, norm_vars, job_vars, env_vars>>

UNext == UnifyCall

SpecUnify == UInit /\ [][UNext]_vars

\* -------------------------------------------- the Sentiment Scorer alone
\* The values analyze_text is called with: None, NaN, 42, "" and strings.
ScoreInputs == {NoneValue, NaN, FortyTwo, 0, 1, 2, 3}

ScoreInit ==
    /\ IdleRun
    /\ pc = "score"
    /\ IdleUnify
    /\ IdleScore
    /\ IdleNorm
    /\ NoBackfill
    /\ IdleEnv

\* One call transformer.analyze_text(text).
AnalyzeCall ==
    /\ pc = "score"
    /\ Len(s_calls) < MaxCalls
    /\ \E text \in ScoreInputs :
          /\ s_calls' = Append(s_calls,
                 [text |-> text, score |-> analyze_text_of(transformer, text)])
          /\ transformer' = self_after_analyze_text(transformer, text)
    /\ UNCHANGED <<run_vars, unify_vars, norm_vars, job_vars, env_vars>>

ScoreNext == AnalyzeCall

SpecScore == ScoreInit /\ [][ScoreNext]_vars

\* -------------------------------------------- the Source Normalizers alone
NormKinds == {"reddit", "twitter", "news"}
\* What a record has as its primary text: a text of its own, the empty
\* string, or no value (NaN in the frame's column).
TextChoices == {"own", "empty", "missing"}
ChosenText(choice, k) ==
    CASE choice = "own" -> k
      [] choice = "empty" -> 0
      [] choice = "missing" -> NaN
\* The k-th raw record of a source with the given primary text.
NormDoc(kind, text, k) ==
    CASE kind = "reddit" ->
            [id |-> k, title |-> text, url |-> k, created_utc |-> k]
      [] kind = "twitter" -> [id |-> k, text |-> text, created_at |-> k]
      [] kind = "news" -> [title |-> text, url |-> k, extracted_at |-> k]
NormColumns(kind) ==
    CASE kind = "reddit" -> RedditColumns
      [] kind = "twitter" -> Range(TwitterColumns)
      [] kind = "news" -> NewsColumns
\* The batches a normalizer is tried on: pd.DataFrame(), batches of up to
\* NMaxLen records of the source, and batches none of whose records has the
\* primary text field, so that the frame has no such column.
NormFrames(kind) ==
    {EmptyFrame}
    \cup {[cols |-> NormColumns(kind),
           rows |-> [i \in DOMAIN f |->
                       NormDoc(kind, ChosenText(f[i], i), i)]] :
             f \in UNION {[1..m -> TextChoices] : m \in 1..NMaxLen}}
    \cup {[cols |-> {"0"}, rows |-> [i \in 1..n |-> [c0 |-> i]]] :
             n \in 1..NMaxLen}

\* The normalizer of a source.
Normalize(kind, df, now) ==
    CASE kind = "reddit" -> transform_reddit_data(df, now)
      [] kind = "twitter" -> transform_twitter_data(df, now)
      [] kind = "news" -> transform_news_data(df, now)
\* The primary text field of a source and the column its score is put in.
PrimaryText(kind) == IF kind = "twitter" THEN "text" ELSE "title"
ScoreColumn(kind) ==
    IF kind = "twitter" THEN "text_sentiment" ELSE "title_sentiment"

NormInit ==
    /\ IdleRun
    /\ pc = "normalize"
    /\ IdleUnify
    /\ IdleScore
    /\ NoBackfill
    /\ IdleEnv
    /\ n_kind \in NormKinds
    /\ n_df \in NormFrames(n_kind)
    /\ n_out = Unassigned

\* One call of the normalizer of n_kind on n_df.
NormalizeCall ==
    /\ pc = "normalize"
    /\ n_out' = Normalize(n_kind, n_df, run)
    /\ pc' = "normalized"
    /\ UNCHANGED <<run, store_up, locals, outcome, calls, errors, fit_corpus,
                   writes, prev_inputs, db, n_kind, n_df, unify_vars,
                   score_vars, job_vars, env_vars>>

NormNext == NormalizeCall

SpecNorm == NormInit /\ [][NormNext]_vars

\* ------------------------------------------------------------------ claims
\* The batch transform_all_sources built in this run, before line 289
\* rebinds unified_sentiment_data to its de-duplicated form.
PreDedup == transform_all_sources(reddit_posts, tweets, headlines, run).rows

\* The corpus of this run as lines 243-255 collect it.
Corpus == all_texts(reddit_posts, tweets, headlines)

\* Whether a batch bound by acquisition is there and has rows.
NonEmptyBatch(df) == df # Unassigned /\ ~Empty(df)

\* The first row of rows that has the dedup key of rows[i].
FirstOfKey(rows, i) ==
    CHOOSE j \in 1..i :
        /\ DedupKey(rows[j]) = DedupKey(rows[i])
        /\ \A m \in 1..(j - 1) : DedupKey(rows[m]) # DedupKey(rows[i])

\* C1: every batch main hands to sentiment_analysis in a run has pairwise
\* distinct (source, source_id); for every unified record of the run exactly
\* one record with its key is in the batch, and it has the payload of the
\* first unified record with that key; a successful write appends exactly that
\* batch to the collection.
C1_InBatchDedup ==
    \A k \in DOMAIN writes :
        writes[k].collection = "sentiment_analysis" =>
            LET W == writes[k].docs
                U == PreDedup
                sa == db["sentiment_analysis"]
            IN /\ \A a, b \in DOMAIN W :
                      a # b => DedupKey(W[a]) # DedupKey(W[b])
               /\ \A i \in DOMAIN U :
                      /\ Cardinality({a \in DOMAIN W :
                             DedupKey(W[a]) = DedupKey(U[i])}) = 1
                      /\ \A a \in DOMAIN W :
                             DedupKey(W[a]) = DedupKey(U[i]) =>
                                 \A f \in UnifiedColumns :
                                     W[a][f] = U[FirstOfKey(U, i)][f]
               /\ writes[k].ok =>
                      /\ Len(sa) >= Len(W)
                      /\ SubSeq(sa, Len(sa) - Len(W) + 1, Len(sa)) = W

\* C1 witness: a run wrote a batch that is shorter than the unified batch,
\* and two unified records of one key had different texts.
C1_Witness ==
    /\ pc = "end"
    /\ \E k \in DOMAIN writes :
          /\ writes[k].collection = "sentiment_analysis"
          /\ writes[k].ok
          /\ Len(writes[k].docs) < Len(PreDedup)
    /\ \E i, j \in DOMAIN PreDedup :
          /\ i < j
          /\ DedupKey(PreDedup[i]) = DedupKey(PreDedup[j])
          /\ PreDedup[i].text # PreDedup[j].text

\* C2 (as claimed): a run whose corpus is too small for topic modeling still
\* persists its unified records to sentiment_analysis, with topic_id = -1.
C2_SkipStillPersists ==
    (/\ pc = "end"
     /\ store_up
     /\ unified_sentiment_data # Unassigned
     /\ ~Corpus.raised
     /\ Len(Corpus.texts) < MinCorpus)
    => \E k \in DOMAIN writes :
          /\ writes[k].collection = "sentiment_analysis"
          /\ writes[k].ok
          /\ Len(writes[k].docs) > 0
          /\ \A a \in DOMAIN writes[k].docs :
                /\ "topic_id" \in DOMAIN writes[k].docs[a]
                /\ writes[k].docs[a].topic_id = -1

\* C3 (as claimed): in a run with the store up and a corpus of fewer than 10
\* texts fit is not invoked and every unified record of the run has
\* topic_id = -1.
C3_SkipKeepsDefaultTopic ==
    (/\ pc = "end"
     /\ store_up
     /\ ~Corpus.raised
     /\ Len(Corpus.texts) < MinCorpus)
    => /\ fit_corpus = Unassigned
       /\ unified_sentiment_data # Unassigned =>
             \A i \in DOMAIN unified_sentiment_data.rows :
                /\ "topic_id" \in DOMAIN unified_sentiment_data.rows[i]
                /\ unified_sentiment_data.rows[i].topic_id = -1

\* C4 (as claimed): with the store up, topic modeling runs for every corpus
\* of at least 10 texts, exactly 10 included.
C4_ThresholdIsTen ==
    (/\ pc = "end"
     /\ store_up
     /\ ~Corpus.raised
     /\ Len(Corpus.texts) >= MinCorpus)
    => fit_corpus # Unassigned

\* C5 (as claimed): when the twitter fetch raised or returned an empty batch
\* while the store is up and reddit and news delivered, the enrichment stage
\* unifies reddit and news into a batch without twitter records.
C5_TwitterFailureDegrades ==
    (/\ pc = "topic"
     /\ store_up
     /\ outcome.twitter \in {"raised", "empty"}
     /\ NonEmptyBatch(reddit_posts)
     /\ NonEmptyBatch(headlines))
    => /\ "sentiment" \notin errors
       /\ unified_sentiment_data # Unassigned
       /\ Len(unified_sentiment_data.rows)
             = Len(reddit_posts.rows) + Len(headlines.rows)
       /\ \A i \in DOMAIN unified_sentiment_data.rows :
             unified_sentiment_data.rows[i].source # "twitter"

\* C6: after the enrichment stage, a missing or empty reddit or news batch
\* means the stage failed (error logged, no unified batch, then or later in
\* the run) and the run is then in its topic stage or at its end, never
\* aborted; and with reddit and news non-empty an empty twitter batch leaves
\* the stage successful.
C6_HardDependency ==
    /\ pc \in {"topic", "end"} =>
          /\ (~NonEmptyBatch(reddit_posts) \/ ~NonEmptyBatch(headlines)) =>
                /\ unified_sentiment_data = Unassigned
                /\ "sentiment" \in errors
                /\ \A k \in DOMAIN writes :
                      writes[k].collection # "sentiment_analysis"
          /\ (/\ NonEmptyBatch(reddit_posts)
              /\ NonEmptyBatch(headlines)
              /\ tweets # Unassigned
              /\ Empty(tweets)) =>
                /\ unified_sentiment_data # Unassigned
                /\ "sentiment" \notin errors
    /\ "sentiment" \in errors => pc \in {"topic", "end"}

\* C6 witness: a run ended whose news batch was empty while reddit delivered:
\* the enrichment stage failed and the run went on to its end.
C6_Witness ==
    /\ pc = "end"
    /\ NonEmptyBatch(reddit_posts)
    /\ headlines # Unassigned
    /\ Empty(headlines)
    /\ "sentiment" \in errors
    /\ unified_sentiment_data = Unassigned

\* C7 (as claimed): in a run whose store cannot be reached nothing is
\* acquired, enriched, fitted or written: the run is aborted at the connect.
C7_UnreachableStoreAborts ==
    (pc # "start" /\ ~store_up) =>
        /\ pc = "aborted"
        /\ calls = <<>>
        /\ writes = <<>>
        /\ fit_corpus = Unassigned
        /\ unified_sentiment_data = Unassigned

\* The records of sentiment_analysis that runs of main persisted.
PersistedByMain ==
    SelectSeq(db["sentiment_analysis"],
              LAMBDA d : d.processed_at \in 1..MaxRuns)

\* C8 (as claimed): over all runs of main, two persisted records of one
\* source have the same source_id exactly when they are the same document
\* (the same text and source timestamp).
C8_StableSourceId ==
    LET sa == PersistedByMain
    IN \A i, j \in DOMAIN sa :
          sa[i].source = sa[j].source =>
             ((sa[i].source_id = sa[j].source_id)
                <=> (/\ sa[i].text = sa[j].text
                     /\ sa[i].created_at = sa[j].created_at))

\* The batches this run worked on, as StartRun remembers them.
SameInputsAsPreviousRun ==
    /\ prev_inputs # Unassigned
    /\ prev_inputs = [reddit_posts |-> reddit_posts, tweets |-> tweets,
                      headlines |-> headlines, store_up |-> store_up]

\* The records of sentiment_analysis that run r enriched.
PersistedBy(r) ==
    SelectSeq(db["sentiment_analysis"], LAMBDA d : d.processed_at = r)

\* C9: a run on the same batches as the run before it, with the store up and
\* a corpus on which the model is fitted, inserts its whole de-duplicated
\* batch again: both runs inserted as many records as the unified batch has
\* keys, and every key of the batch is then on two records of these two runs.
C9_NoCrossRunDedup ==
    (/\ pc = "end"
     /\ SameInputsAsPreviousRun
     /\ store_up
     /\ unified_sentiment_data # Unassigned
     /\ fit_corpus # Unassigned)
    => LET W == unified_sentiment_data.rows
           keys == {DedupKey(PreDedup[i]) : i \in DOMAIN PreDedup}
           both == PersistedBy(run - 1) \o PersistedBy(run)
       IN /\ Len(PersistedBy(run)) = Cardinality(keys)
          /\ Len(PersistedBy(run - 1)) = Cardinality(keys)
          /\ PersistedBy(run) = W
          /\ \A key \in keys :
                Cardinality({i \in DOMAIN both : DedupKey(both[i]) = key}) = 2

\* C9 witness: the second of two runs on the same 12 records of 12 keys has
\* ended, 12 records were inserted by each, and the collection holds 24.
C9_Witness ==
    /\ pc = "end"
    /\ run = 2
    /\ SameInputsAsPreviousRun
    /\ store_up
    /\ fit_corpus # Unassigned
    /\ unified_sentiment_data # Unassigned
    /\ Len(PreDedup) = 12
    /\ Len(PersistedBy(1)) = 12
    /\ Len(PersistedBy(2)) = 12
    /\ Len(db["sentiment_analysis"]) = 24

C11_UnifierTopicDefaults ==
    (pc = "returned" /\ u_out # Raised) =>
        \A i \in DOMAIN u_out.rows :
            /\ UnifiedColumns \cup TopicColumns \subseteq DOMAIN u_out.rows[i]
            /\ u_out.rows[i].topic_id = -1
            /\ u_out.rows[i].topic_confidence = 0
            /\ u_out.rows[i].topic_keywords \in {<<"Unknown">>, <<>>}

\* C12: every call of analyze_text returns a score (it does not raise), and
\* for None, the empty string and every value that is not a string (NaN, 42)
\* the score is the zero score.
C12_AnalyzeTextTotal ==
    \A i \in DOMAIN s_calls :
        /\ s_calls[i].score # Raised
        /\ DOMAIN s_calls[i].score = {"compound", "pos", "neu", "neg"}
        /\ s_calls[i].text \in {NoneValue, 0, FortyTwo, NaN} =>
              s_calls[i].score = ZeroScore

\* C12 witness: analyze_text was called with None, with "" and with 42.
C12_Witness ==
    /\ Len(s_calls) = 3
    /\ s_calls[1].text = NoneValue
    /\ s_calls[2].text = 0
    /\ s_calls[3].text = FortyTwo
    /\ \A i \in 1..3 : s_calls[i].score = ZeroScore

C14_OneRecordPerInput ==
    pc = "normalized" =>
        /\ n_out # Raised
        /\ Len(n_out.rows) = Len(n_df.rows)
        /\ \A i \in DOMAIN n_df.rows :
              (\/ PrimaryText(n_kind) \notin DOMAIN n_df.rows[i]
               \/ n_df.rows[i][PrimaryText(n_kind)] = NaN) =>
                  n_out.rows[i][ScoreColumn(n_kind)] = ZeroScore

\* C15: every record a run of main hands to sentiment_analysis has a
\* topic_id in 0..n_topics-1: none keeps the default -1.
C15_PersistedTopicInRange ==
    \A k \in DOMAIN writes :
        writes[k].collection = "sentiment_analysis" =>
            /\ fit_corpus # Unassigned
            /\ \A a \in DOMAIN writes[k].docs :
                  /\ writes[k].docs[a].text \in Range(fit_corpus.texts)
                  /\ writes[k].docs[a].topic_id \in 0..(NTopics - 1)

\* C15 witness: a run fitted a model and persisted records of reddit,
\* twitter and news, with more than one topic among them.
C15_Witness ==
    /\ pc = "end"
    /\ fit_corpus # Unassigned
    /\ \E k \in DOMAIN writes :
          /\ writes[k].collection = "sentiment_analysis"
          /\ writes[k].ok
          /\ {writes[k].docs[a].source : a \in DOMAIN writes[k].docs}
                = {"reddit", "twitter", "news"}
          /\ Cardinality({writes[k].docs[a].topic_id :
                             a \in DOMAIN writes[k].docs}) > 1

\* C16 (as claimed): the topics collection holds one document per topic_id,
\* that of the latest fit.
C16_TopicsOverwritten ==
    LET topics == db["topics"]
    IN \A i, j \in DOMAIN topics :
          i # j => topics[i].topic_id # topics[j].topic_id

\* C17 (as claimed): no insert call is made for an empty batch, and an insert
\* call that succeeds returns the number of records of the batch.
C17_PersistCount ==
    \A k \in DOMAIN writes :
        /\ writes[k].docs # <<>>
        /\ writes[k].ok => writes[k].count = Len(writes[k].docs)

\* C18: in one run every source is fetched at most once and every collection
\* gets at most one insert call, so that no failed fetch or insert is made a
\* second time.
C18_NoRetries ==
    /\ \A src \in {"reddit", "twitter", "news"} :
          Cardinality({i \in DOMAIN calls : calls[i] = src}) <= 1
    /\ \A c \in Collections :
          Cardinality({k \in DOMAIN writes : writes[k].collection = c}) <= 1

\* C18 witness: a run ended in which the twitter fetch raised and the insert
\* of the reddit batch failed.
C18_Witness ==
    /\ pc = "end"
    /\ outcome.twitter = "raised"
    /\ "twitter" \in Range(calls)
    /\ \E k \in DOMAIN writes :
          /\ writes[k].collection = "raw_reddit_posts"
          /\ writes[k].docs # <<>>
          /\ ~writes[k].ok

\* C19: a run is aborted only by the MongoClient constructor, and a run that
\* has its client reaches the end of the script.
C19_NoExceptionEscapes ==
    /\ [](pc = "aborted" => errors = {"connect"})
    /\ (pc = "reddit") ~> (pc = "end")

\* C19 witness: a run reached the end after every one of its five stages
\* had logged an error.
C19_Witness ==
    /\ pc = "end"
    /\ errors = {"reddit", "twitter", "news", "sentiment", "topic"}

\* C20 (as claimed): a backfill job whose corpus (the texts of
\* sentiment_analysis and of the raw tweets) has fewer than 10 texts does not
\* call fit, and the records it inserts have the default topic_id -1.
C20_BackfillSkipsSmallCorpus ==
    (/\ backfill # Unassigned
     /\ backfill.found > 0
     /\ Len(backfill.corpus) < MinCorpus)
    => /\ ~backfill.fitted
       /\ \A i \in DOMAIN backfill.inserted :
             backfill.inserted[i].topic_id = -1

\* C21 (as claimed): every twitter record of sentiment_analysis, whichever
\* job inserted it, has the source_id derived from the platform id of its
\* tweet.
C21_TwitterSourceIdIsPlatformId ==
    \A i \in DOMAIN db["sentiment_analysis"] :
        LET d == db["sentiment_analysis"][i]
        IN d.source = "twitter" =>
              \E k \in 1..MaxTweets :
                 /\ d.text = TweetDoc(k).text
                 /\ d.source_id = TwitterSourceId(TweetDoc(k))

\* C22 (as claimed): a job that fitted a model and persisted records with
\* its topic ids has written the topic documents of that fit to topics, one
\* per topic_id: a run of main with its own topics insert, a backfill job
\* with documents of its own datetime.now().
C22_FitWritesTopics ==
    /\ \A k \in DOMAIN writes :
          (writes[k].collection = "sentiment_analysis" /\ writes[k].ok)
          => \E k2 \in DOMAIN writes :
                /\ writes[k2].collection = "topics"
                /\ writes[k2].ok
                /\ {writes[k2].docs[a].topic_id : a \in DOMAIN writes[k2].docs}
                      = 0..(NTopics - 1)
    /\ (/\ backfill # Unassigned
        /\ backfill.fitted
        /\ backfill.inserted # <<>>)
       => \A t \in 0..(backfill.n_topics - 1) :
             \E i \in DOMAIN db["topics"] :
                /\ db["topics"][i].topic_id = t
                /\ db["topics"][i].created_at = BackfillNow(backfills)

\* C23 (as claimed): the corpus a run of main fits its model on holds the
\* texts that are in sentiment_analysis, those of earlier jobs included.
C23_CorpusIncludesStoredTexts ==
    (pc = "end" /\ fit_corpus # Unassigned)
    => \A i \in DOMAIN db["sentiment_analysis"] :
          db["sentiment_analysis"][i].text \in Range(fit_corpus.texts)

\* C24 (as claimed): after any sequence of runs of main and of the backfill
\* job, no tweet of raw_twitter_posts is on more than one record of
\* sentiment_analysis.
C24_OneRecordPerTweet ==
    LET raw == db["raw_twitter_posts"]
        sa == db["sentiment_analysis"]
    IN \A j \in DOMAIN raw :
          Cardinality({i \in DOMAIN sa :
                          /\ sa[i].source = "twitter"
                          /\ sa[i].text = raw[j].text
                          /\ sa[i].created_at = raw[j].created_at}) <= 1

\* C25: no step of main, of the backfill job or of the dashboard changes or
\* removes a document of sentiment_analysis: after every step the collection
\* is what it was, followed by what the step inserted.
C25_SentimentAnalysisAppendOnly ==
    [][/\ Len(db'["sentiment_analysis"]) >= Len(db["sentiment_analysis"])
       /\ SubSeq(db'["sentiment_analysis"], 1,
                 Len(db["sentiment_analysis"])) = db["sentiment_analysis"]]_vars

\* C25 witness: the dashboard has loaded a sentiment_analysis that holds the
\* records of two runs of main and of a backfill job, after the second run
\* refitted the model.
C25_Witness ==
    /\ dashboard # Unassigned
    /\ dashboard # Raised
    /\ dashboard.sentiment = db["sentiment_analysis"]
    /\ {1, 2, BackfillNow(1)} \subseteq
          {dashboard.sentiment[i].processed_at : i \in DOMAIN dashboard.sentiment}
    /\ Len(db["topics"]) = 2 * NTopics

\* C26 (as claimed): every record of sentiment_analysis with an assigned
\* topic has a topic_id in 0..4, and a backfill job that fits a model fits
\* it with the configured 5 topics.
C26_TopicCountIsConfigured ==
    /\ \A i \in DOMAIN db["sentiment_analysis"] :
          db["sentiment_analysis"][i].topic_id # -1
          => db["sentiment_analysis"][i].topic_id \in 0..(NTopics - 1)
    /\ (backfill # Unassigned /\ backfill.fitted)
       => backfill.n_topics = NTopics

\* The place of a collection in the order main writes them.
WriteOrder(collection) ==
    CASE collection = "raw_reddit_posts" -> 1
      [] collection = "raw_twitter_posts" -> 2
      [] collection = "raw_news_articles" -> 3
      [] collection = "sentiment_analysis" -> 4
      [] collection = "topics" -> 5

\* C27: the insert calls of a run are made in the order raw_reddit_posts,
\* raw_twitter_posts, raw_news_articles, sentiment_analysis, topics;
\* sentiment_analysis is written only when the three acquisition stages are
\* over and the records have their topic; topics is written only after the
\* insert into sentiment_analysis of the same run succeeded.
C27_WritesInOrder ==
    /\ \A k1, k2 \in DOMAIN writes :
          k1 < k2 => WriteOrder(writes[k1].collection)
                        < WriteOrder(writes[k2].collection)
    /\ \A k \in DOMAIN writes :
          writes[k].collection = "sentiment_analysis"
          => /\ outcome.reddit # "none"
             /\ outcome.twitter # "none"
             /\ outcome.news # "none"
             /\ pc = "end"
             /\ fit_corpus # Unassigned
             /\ \A a \in DOMAIN writes[k].docs :
                   TopicColumns \subseteq DOMAIN writes[k].docs[a]
    /\ \A k \in DOMAIN writes :
          writes[k].collection = "topics"
          => \E k1 \in 1..(k - 1) :
                /\ writes[k1].collection = "sentiment_analysis"
                /\ writes[k1].ok

\* C27 witness: a run made all five insert calls and all succeeded.
C27_Witness ==
    /\ pc = "end"
    /\ Len(writes) = 5
    /\ \A k \in DOMAIN writes : writes[k].ok
    /\ [k \in DOMAIN writes |-> writes[k].collection]
          = <<"raw_reddit_posts", "raw_twitter_posts", "raw_news_articles",
              "sentiment_analysis", "topics">>

\* What makes the enrichment stage fail: a batch that was never bound, an
\* empty reddit or news batch, or a twitter batch the normalizer raises on.
EnrichmentCannotRun ==
    \/ reddit_posts = Unassigned
    \/ tweets = Unassigned
    \/ headlines = Unassigned
    \/ Empty(reddit_posts)
    \/ Empty(headlines)
    \/ transform_twitter_data(tweets, run) = Raised

\* C28: a run whose enrichment stage failed (and it fails on each of its
\* causes) makes no insert call on sentiment_analysis or topics, and every
\* raw insert of the run that succeeded is still at the end of its
\* collection.
C28_FailedEnrichmentPersistsNothing ==
    /\ (pc \in {"topic", "end"} /\ EnrichmentCannotRun)
       => "sentiment" \in errors
    /\ "sentiment" \in errors
       => /\ unified_sentiment_data = Unassigned
          /\ \A k \in DOMAIN writes :
                /\ writes[k].collection
                      \notin {"sentiment_analysis", "topics"}
                /\ writes[k].ok
                   => LET stored == db[writes[k].collection]
                      IN /\ Len(stored) >= Len(writes[k].docs)
                         /\ SubSeq(stored,
                                   Len(stored) - Len(writes[k].docs) + 1,
                                   Len(stored)) = writes[k].docs

\* C28 witness: a run ended whose enrichment failed, whose topic stage
\* nevertheless fitted a model, and whose news insert had succeeded.
C28_Witness ==
    /\ pc = "end"
    /\ "sentiment" \in errors
    /\ fit_corpus # Unassigned
    /\ \E k \in DOMAIN writes :
          writes[k].collection = "raw_news_articles" /\ writes[k].ok

\* C29 (as claimed): with tweets_per_term 0 or no search term, main makes no
\* twitter fetch and no insert into raw_twitter_posts, tweets is the empty
\* frame with the twitter columns, and enrichment unifies a non-empty reddit
\* and news batch; otherwise the one fetch is for the first search term with
\* max_results at most 100.
C29_TwitterSwitchedOff ==
    /\ (pc \in {"news", "sentiment", "topic", "end"}
        /\ SkipsTwitter(settings))
       => /\ "twitter" \notin Range(calls)
          /\ \A k \in DOMAIN writes :
                writes[k].collection # "raw_twitter_posts"
          /\ tweets = EmptyTweets
    /\ (/\ pc \in {"topic", "end"}
        /\ SkipsTwitter(settings)
        /\ reddit_posts # Unassigned
        /\ headlines # Unassigned
        /\ ~Empty(reddit_posts)
        /\ ~Empty(headlines))
       => "sentiment" \notin errors
    /\ outcome.fetch # Unassigned
       => /\ ~SkipsTwitter(settings)
          /\ outcome.fetch.keyword = settings.search_terms[1]
          /\ outcome.fetch.max_results <= MaxResultsCap
          /\ outcome.fetch.max_results <= settings.tweets_per_term

\* C30: the enrichment stage leaves the three raw batches main holds as they
\* were: the normalizers and the Unifier worked on copies.
C30_InputsUnchanged ==
    [][pc = "sentiment"
       => /\ reddit_posts' = reddit_posts
          /\ tweets' = tweets
          /\ headlines' = headlines]_vars

\* C30 witness: enrichment built a unified batch from three non-empty
\* batches, none of which has a sentiment or processed_at column.
C30_Witness ==
    /\ pc = "topic"
    /\ unified_sentiment_data # Unassigned
    /\ ~Empty(reddit_posts) /\ ~Empty(tweets) /\ ~Empty(headlines)
    /\ {unified_sentiment_data.rows[i].source :
           i \in DOMAIN unified_sentiment_data.rows}
          = {"reddit", "twitter", "news"}
    /\ reddit_posts.cols = RedditColumns
    /\ tweets.cols = Range(TwitterColumns)
    /\ headlines.cols = NewsColumns

====
